---- MODULE Spec2Model ----
(***************************************************************************)
(* A model of pybiocfilecache's resource cache (cache.py): the resource    *)
(* table of the SQLite store, the files the rows point to, and the         *)
(* operations add / get / update / remove / cleanup / purge.               *)
(*                                                                         *)
(* add and get are modelled step by step (one action per commit or file    *)
(* system call) so that their interleavings with another process and the   *)
(* order of their effects can be checked; the other operations are one     *)
(* action each, with the outcome of every call that may fail chosen        *)
(* nondeterministically.                                                    *)
(***************************************************************************)
EXTENDS Integers, Sequences, FiniteSets, TLC

(* ---------------------------------------------------------------- bounds *)

\* the file names generate_uuid can give (bounds the files in the cache
\* directory at one time)
MaxAdds == 3
\* the clock runs from 1 to MaxTime
MaxTime == 2
\* polls of get's existence wait before its timeout elapses
MaxPolls == 1
\* calls made in a run
MaxCalls == 3

(* ------------------------------------------------------------ the values *)

Procs == {"p1", "p2"}
Names == {"A", "B"}
\* Python's None for a name; f"{rname}" prints it as 'None'
NoneName == "None"
FileActions == {"copy", "move", "asis"}

\* the caller's files, outside the cache directory
ExtPaths == {<<"ext", 1>>, <<"ext", 2>>}
\* cache_dir / f"{uuid}_{name}"
CachePath(u) == <<"cache", u>>
CachePaths == {CachePath(u) : u \in 1..MaxAdds}
\* the metadata store: cache_dir / "BiocFileCache.sqlite"
StorePath == <<"store", 0>>
\* the files the cache directory can hold
CacheDir == CachePaths \cup {StorePath}
Paths == ExtPaths \cup CacheDir

\* the state of a path: no file, a file written in part, or a file's data
Absent == "absent"
Partial == "partial"
Contents == {"a", "b"}
\* what the store's file holds (the tables are the variable rows)
StoreData == "sqlite"

\* an optional value: <<>> is None, <<v>> is v
NoValue == <<>>
Some(v) == <<v>>

VARIABLES
    cleanup_interval, \* config.cleanup_interval: None or an interval
    rows,       \* the resource table: a set of row records
    fs,         \* the file system: path -> Absent, Partial or the data
    now,        \* the clock
    calls,      \* the calls made so far
    pc,         \* each process's position
    op,         \* each process's current call and its arguments
    loc,        \* each process's local variables
    res,        \* each process's result (return value or exception)
    last,       \* each process's last call, when it was an add that returned a row
    store,      \* the metadata store's schema: its tables, columns, indexes, metadata rows
    mig         \* the call on the store's schema in progress, and the one before it

vars == <<cleanup_interval, rows, fs, now, calls, pc, op, loc, res, last, store, mig>>

(* --------------------------------------------------------------- helpers *)

Exists(f, p) == f[p] # Absent

generate_id(size) == <<"BFC", size + 1>>

\* hashlib digest of the data read from the file
calculate_file_hash(data) == <<"md5", data>>

RowsNamed(rs, n) == {r \in rs : r.rname = n}
RowsWithRid(rs, rid) == {r \in rs : Some(r.rid) = rid}
RowsWithId(rs, id) == {r \in rs : r.id = id}

\* query(...).first(): SQLite scans the table in rowid order
FirstRow(S) == CHOOSE r \in S : \A q \in S : r.id <= q.id

\* INTEGER PRIMARY KEY without AUTOINCREMENT: one more than the largest rowid
NewId(rs) == IF rs = {} THEN 1 ELSE 1 + (CHOOSE m \in {r.id : r \in rs} : \A r \in rs : r.id <= m)

\* the Resource object add builds (cache.py 297-304); id 0 until it is
\* inserted. rtype and fpath are stored once and read by no operation: the
\* rows of the model leave them out
NewResource(rid, rname, rpath, expires) ==
    [id |-> 0, rid |-> rid, rname |-> rname, rpath |-> rpath,
     etag |-> NoValue, expires |-> expires,
     create_time |-> 0, access_time |-> 0, last_modified_time |-> NoValue]

\* INSERT: the primary key and the server defaults func.now() are filled in
InsertedRow(rs, r, t) == [r EXCEPT !.id = NewId(rs), !.create_time = t, !.access_time = t]

\* an UPDATE of a row: last_modified_time has onupdate=func.now(), so every
\* UPDATE that does not set it explicitly sets it to the current time
\* (models.py 74); a flush with no changed attribute emits no UPDATE
Touch(r, changed, t) == IF changed = r THEN r ELSE [changed EXCEPT !.last_modified_time = Some(t)]

ReplaceRow(rs, old, new) == (rs \ {old}) \cup {new}

RowsAfterDeleteKeep(rs, id) == rs
\* session.delete(resource); session.commit()
RowsAfterDelete(rs, id) == {r \in rs : r.id # id}

AfterRenameKeepSource(f, src, dst) == [f EXCEPT ![dst] = f[src]]
\* os.rename(src, dst): the data is at dst and src is gone
AfterRename(f, src, dst) == IF src = dst THEN f ELSE [f EXCEPT ![dst] = f[src], ![src] = Absent]

\* copy2 opens dst for writing: it exists, truncated
AfterCreate(f, dst) == [f EXCEPT ![dst] = Partial]
AfterWriteNothing(f, src, dst) == f
\* copy2 has written all of src's data
AfterWrite(f, src, dst) == [f EXCEPT ![dst] = f[src]]
AfterUnlinkKeep(f, p) == f
\* Path.unlink(): no file is at p
AfterUnlink(f, p) == [f EXCEPT ![p] = Absent]

CopyThenRecord(stage) ==
    CASE stage = "prepare" -> "add_copy"
      [] stage = "copy" -> "add_insert"
      [] stage = "insert" -> "add_hash"
      [] OTHER -> "done"
\* the order of add's steps (cache.py 306-318): insert and commit the row,
\* then copy_or_move, then the checksum
AddStageAfter(stage) ==
    CASE stage = "prepare" -> "add_insert"
      [] stage = "insert" -> "add_copy"
      [] stage = "copy" -> "add_hash"
      [] OTHER -> "done"

(* ------------------------------------------------------ results and calls *)

NoRow == [id |-> -1, rpath |-> <<"none", 0>>]
Result(kind, row, named, seen) ==
    [kind |-> kind, row |-> row, named |-> named, seen |-> seen, val |-> 0]
NoResult == Result("none", NoValue, NoneName, Absent)
Raised(kind) == Result(kind, NoValue, NoneName, Absent)
Counted(n) == [Raised("count") EXCEPT !.val = n]

\* src0 is the state of the source path when the call was made; batch is the
\* list add_batch was given and at the place in it of the add in progress
NoOp == [name |-> "none", rname |-> NoneName, rid |-> NoValue, fpath |-> <<"ext", 1>>,
         action |-> "copy", expires |-> NoValue, force |-> FALSE, src0 |-> Absent,
         batch |-> <<>>, at |-> 0]
NoLoc == [row |-> NoRow, new |-> NoRow, polls |-> 0, ret |-> "caller"]

(* ------------------------------------------------------ the store's schema *)

\* the versions the migrator knows (migration.py 104-109) and the version of
\* MigrationV0_5_0, the last of Migrator.migrations (migrationV0_5_0.py 14)
OldVersion == "0.4.1"
NewVersion == "0.5.0"
\* const.SCHEMA_VERSION: the latest version, which a library-made store records
SCHEMA_VERSION == NewVersion
VersionKey == "schema_version"

\* the columns and indexes create_all gives the resource table (models.py
\* 66-76); rname has no index
BaseColumns == {"id", "rid", "rname", "create_time", "access_time", "rpath", "rtype",
                "fpath", "last_modified_time", "etag", "expires"}
BaseIndexes == {"ix_resource_id"}
\* what MigrationV0_5_0.up adds
AddedColumns == {"tags", "size_bytes"}
AddedIndexes == {"ix_resource_rname", "ix_resource_rid"}

MetaRow(k, v) == [key |-> k, value |-> v]
\* no store file yet: a fresh directory
FreshStore == [made |-> FALSE, meta |-> {}, columns |-> {}, indexes |-> {}]
\* the store of a directory the library has opened: create_all's tables and
\* the schema_version row (cache.py 83-107)
LibraryStore ==
    [made |-> TRUE, meta |-> {MetaRow(VersionKey, SCHEMA_VERSION)},
     columns |-> BaseColumns, indexes |-> BaseIndexes]

\* a call on the schema: its name, argument, result and the store when it
\* began
NoCall == [name |-> "none", key |-> "none", arg |-> "none", kind |-> "none",
           val |-> "none", before |-> FreshStore]
\* no call in progress and none before
NoMig == [pc |-> "idle", call |-> NoCall, prev |-> NoCall, opened |-> FALSE]
\* a cache object is open on the directory
OpenedMig == [NoMig EXCEPT !.opened = TRUE]

\* the caller's two files exist; the cache directory holds no resource file
InitFs ==
    [p \in Paths |-> IF p = <<"ext", 1>> THEN "a" ELSE IF p = <<"ext", 2>> THEN "b"
                     ELSE IF p = StorePath THEN StoreData ELSE Absent]

Init ==
    /\ cleanup_interval = Some(1)
    /\ rows = {}
    /\ fs = InitFs
    /\ now = 1
    /\ calls = 0
    /\ pc = [p \in Procs |-> "idle"]
    /\ op = [p \in Procs |-> NoOp]
    /\ loc = [p \in Procs |-> NoLoc]
    /\ res = [p \in Procs |-> NoResult]
    /\ last = [p \in Procs |-> NoOp]
    /\ store = LibraryStore
    /\ mig = OpenedMig

\* the clock advances (its resolution is coarser than a call: it is read as
\* advancing between calls)
Tick ==
    /\ now < MaxTime
    /\ \A p \in Procs : pc[p] = "idle"
    /\ now' = now + 1
    /\ UNCHANGED <<cleanup_interval, calls, rows, fs, pc, op, loc, res, last, store, mig>>

\* the caller takes the result; the process is ready for its next call
Return(p) ==
    /\ pc[p] = "done"
    /\ pc' = [pc EXCEPT ![p] = "idle"]
    /\ op' = [op EXCEPT ![p] = NoOp]
    /\ loc' = [loc EXCEPT ![p] = NoLoc]
    /\ res' = [res EXCEPT ![p] = NoResult]
    /\ last' = [last EXCEPT ![p] = IF op[p].name = "add" /\ res[p].kind = "row" THEN op[p] ELSE NoOp]
    /\ UNCHANGED <<cleanup_interval, calls, rows, fs, now, store, mig>>

\* the run may make another call
CanCall == calls < MaxCalls

\* the cache paths in use: a file is there, or a row or a call in progress
\* names it
UsedPaths == {q \in CachePaths : Exists(fs, q)} \cup {r.rpath : r \in rows}
                \cup {loc[p].new.rpath : p \in Procs} \cup {loc[p].row.rpath : p \in Procs}
\* generate_uuid(): a name that is in use nowhere (which one is immaterial:
\* the first of the free ones)
FreshPath == CHOOSE q \in CachePaths \ UsedPaths : \A o \in CachePaths \ UsedPaths : q[2] <= o[2]
CanAdd == CachePaths \ UsedPaths # {}

(* -------------------------------------------------------------------- get *)

PreparedInCache(o) ==
    NewResource(generate_id(Cardinality(rows)), o.rname, FreshPath, o.expires)
\* cache.py 287-304: the rid from the number of rows, the uuid, the rpath
\* (the source path itself for "asis") and the Resource object
Prepared(o) ==
    NewResource(generate_id(Cardinality(rows)), o.rname,
                IF o.action # "asis" THEN FreshPath ELSE o.fpath, o.expires)

\* get's query (cache.py 208-212) for the call o: the first matching row, or
\* None. With no row get returns None; when add called it (cache.py 278)
\* add goes on and builds its Resource
Query(p, o, ret) ==
    LET matches == IF o.rname # NoneName THEN RowsNamed(rows, o.rname)
                   ELSE RowsWithRid(rows, o.rid)
    IN IF matches # {}
       THEN /\ pc' = [pc EXCEPT ![p] = "get_poll"]
            /\ loc' = [loc EXCEPT ![p] = [NoLoc EXCEPT !.row = FirstRow(matches), !.ret = ret]]
            /\ res' = res
       ELSE IF ret = "add"
       THEN /\ pc' = [pc EXCEPT ![p] = AddStageAfter("prepare")]
            /\ loc' = [loc EXCEPT ![p] = [NoLoc EXCEPT !.new = Prepared(o), !.ret = ret]]
            /\ res' = res
       ELSE /\ pc' = [pc EXCEPT ![p] = "done"]
            /\ loc' = [loc EXCEPT ![p] = NoLoc]
            /\ res' = [res EXCEPT ![p] = Raised("None")]

\* get(rname=n) or get(rid=i) (cache.py 194-212)
CallGet(p) ==
    /\ pc[p] = "idle"
    /\ CanCall
    /\ \E n \in Names \cup {NoneName} :
       \E i \in {NoValue} \cup {Some(generate_id(k - 1)) : k \in 1..MaxAdds} :
          /\ (n = NoneName) # (i = NoValue)
          /\ LET o == [NoOp EXCEPT !.name = "get", !.rname = n, !.rid = i]
             IN /\ op' = [op EXCEPT ![p] = o]
                /\ Query(p, o, "caller")
    /\ calls' = calls + 1
    /\ UNCHANGED <<cleanup_interval, rows, fs, now, last, store, mig>>

\* the TimeoutError of get (cache.py 220-222): the message is built from the
\* rname argument
PathTimeout(p) == Result("Timeout", NoValue, op[p].rname, Absent)

\* what get's caller makes of the row get returns: add raises
\* FileExistsError (cache.py 278-279)
GotRow(p, out) == IF loc[p].ret = "add" THEN Raised("NameExists") ELSE out

\* one round of get's wait (cache.py 218-228): the path exists and the access
\* time is committed, or the timeout has elapsed, or get sleeps
GetPoll(p) ==
    /\ pc[p] = "get_poll"
    /\ LET r == loc[p].row
           cur == RowsWithId(rows, r.id)
       IN IF Exists(fs, r.rpath)
          THEN IF cur = {}
               THEN \* the row was deleted meanwhile: the UPDATE matches no row
                    /\ pc' = [pc EXCEPT ![p] = "done"]
                    /\ res' = [res EXCEPT ![p] = Raised("DbError")]
                    /\ UNCHANGED <<rows, loc>>
               ELSE LET old == CHOOSE c \in cur : TRUE
                        new == Touch(old, [old EXCEPT !.access_time = now], now)
                    IN /\ rows' = ReplaceRow(rows, old, new)
                       /\ pc' = [pc EXCEPT ![p] = "done"]
                       /\ res' = [res EXCEPT ![p] = GotRow(p, Result("row", Some(new), NoneName, fs[r.rpath]))]
                       /\ loc' = loc
          ELSE IF loc[p].polls >= MaxPolls
               THEN /\ pc' = [pc EXCEPT ![p] = "done"]
                    /\ res' = [res EXCEPT ![p] = PathTimeout(p)]
                    /\ UNCHANGED <<rows, loc>>
               ELSE /\ loc' = [loc EXCEPT ![p].polls = @ + 1]
                    /\ UNCHANGED <<rows, pc, res>>
    /\ UNCHANGED <<cleanup_interval, calls, fs, now, op, last, store, mig>>

(* -------------------------------------------------------------------- add *)

\* the choices of expires a caller makes: never, or at time 1
ExpiresChoices == {NoValue, Some(1)}

\* add(rname, fpath, action, expires); it starts with self.get(rname)
\* (cache.py 278)
CallAddOf(p, names) ==
    /\ pc[p] = "idle"
    /\ CanCall
    /\ CanAdd
    /\ \E n \in names, f \in ExtPaths, a \in FileActions, e \in ExpiresChoices :
          LET o == [NoOp EXCEPT !.name = "add", !.rname = n, !.fpath = f,
                                !.action = a, !.expires = e, !.src0 = fs[f]]
          IN /\ op' = [op EXCEPT ![p] = o]
             /\ Query(p, o, "add")
    /\ calls' = calls + 1
    /\ UNCHANGED <<cleanup_interval, rows, fs, now, last, store, mig>>

\* add of one of the names a caller uses
CallAdd(p) == CallAddOf(p, Names)

\* the handler of add (cache.py 320-323): the row is deleted and committed,
\* and add raises
AddFails(p) ==
    /\ rows' = RowsAfterDelete(rows, loc[p].new.id)
    /\ res' = [res EXCEPT ![p] = Raised("Storage")]
    /\ pc' = [pc EXCEPT ![p] = "done"]

\* session.add(resource); session.commit() (cache.py 307-309): the row is
\* committed, or the store raises and add raises with it (the commit is
\* outside add's try block)
AddInsert(p) ==
    /\ pc[p] = "add_insert"
    /\ \/ LET r == InsertedRow(rows, loc[p].new, now)
          IN /\ rows' = rows \cup {r}
             /\ loc' = [loc EXCEPT ![p].new = r]
             /\ pc' = [pc EXCEPT ![p] = AddStageAfter("insert")]
             /\ res' = res
       \/ /\ pc' = [pc EXCEPT ![p] = "done"]
          /\ res' = [res EXCEPT ![p] = Raised("DbError")]
          /\ UNCHANGED <<rows, loc>>
    /\ UNCHANGED <<cleanup_interval, calls, fs, now, op, last, store, mig>>

\* copy_or_move(outpath, rpath, rname, action) begins (cache.py 312,
\* utils.py 66-88): nothing for "asis"; copy2 creates the target; move renames
\* (one step) or, across file systems, copies and then unlinks; any of the
\* calls may raise, and does when the source is missing
AddCopy(p) ==
    /\ pc[p] = "add_copy"
    /\ LET a == op[p].action
           src == op[p].fpath
           dst == loc[p].new.rpath
       IN \/ /\ a = "asis"
             /\ pc' = [pc EXCEPT ![p] = AddStageAfter("copy")]
             /\ UNCHANGED <<fs, rows, res>>
          \/ /\ a # "asis"
             /\ Exists(fs, src)
             /\ fs' = AfterCreate(fs, dst)
             /\ pc' = [pc EXCEPT ![p] = "add_write"]
             /\ UNCHANGED <<rows, res>>
          \/ /\ a = "move"
             /\ Exists(fs, src)
             /\ fs' = AfterRename(fs, src, dst)
             /\ pc' = [pc EXCEPT ![p] = AddStageAfter("copy")]
             /\ UNCHANGED <<rows, res>>
          \/ /\ a # "asis"
             /\ fs' = fs
             /\ AddFails(p)
    /\ UNCHANGED <<cleanup_interval, calls, now, op, loc, last, store, mig>>

\* copy2 writes the data (the target stays written in part if it fails)
AddWrite(p) ==
    /\ pc[p] = "add_write"
    /\ LET src == op[p].fpath
           dst == loc[p].new.rpath
       IN \/ /\ Exists(fs, src)
             /\ fs' = AfterWrite(fs, src, dst)
             /\ pc' = [pc EXCEPT ![p] = IF op[p].action = "move" THEN "add_unlink"
                                        ELSE AddStageAfter("copy")]
             /\ UNCHANGED <<rows, res>>
          \/ /\ fs' = fs
             /\ AddFails(p)
    /\ UNCHANGED <<cleanup_interval, calls, now, op, loc, last, store, mig>>

\* shutil.move across file systems: the source is unlinked after the copy
AddUnlink(p) ==
    /\ pc[p] = "add_unlink"
    /\ \/ /\ Exists(fs, op[p].fpath)
          /\ fs' = AfterUnlink(fs, op[p].fpath)
          /\ pc' = [pc EXCEPT ![p] = AddStageAfter("copy")]
          /\ UNCHANGED <<rows, res>>
       \/ /\ fs' = fs
          /\ AddFails(p)
    /\ UNCHANGED <<cleanup_interval, calls, now, op, loc, last, store, mig>>

\* resource.etag = calculate_file_hash(rpath); session.commit(); the
\* refreshed row is returned (cache.py 315-318); reading the file may raise,
\* and does when it is missing
AddHash(p) ==
    /\ pc[p] = "add_hash"
    /\ LET r == loc[p].new
       IN \/ /\ Exists(fs, r.rpath)
             /\ RowsWithId(rows, r.id) # {}
             /\ LET old == CHOOSE c \in RowsWithId(rows, r.id) : TRUE
                    new == Touch(old, [old EXCEPT !.etag = Some(calculate_file_hash(fs[r.rpath]))], now)
                IN /\ rows' = ReplaceRow(rows, old, new)
                   /\ res' = [res EXCEPT ![p] = Result("row", Some(new), NoneName, fs[r.rpath])]
                   /\ pc' = [pc EXCEPT ![p] = "done"]
          \/ AddFails(p)
    /\ UNCHANGED <<cleanup_interval, calls, fs, now, op, loc, last, store, mig>>

(* ----------------------------------------------------------------- update *)

AfterRollbackFlushed(rs, old, pending) == ReplaceRow(rs, old, pending)
\* session.rollback() (cache.py 387-389): the pending change of the row is
\* dropped, the table is as it was
AfterRollback(rs, old, pending) == rs

\* the outcomes of copy_or_move(src, dst, rname, action) onto a path that may
\* hold a file (utils.py 66-88): the files afterwards, and whether it
\* returned (ok) or raised. copy2 raises SameFileError for src = dst, and
\* leaves dst written in part when it fails midway; shutil.move renames, or
\* copies and unlinks
CopyOutcomes(f, src, dst, a) ==
    IF a = "asis" THEN {[fs |-> f, ok |-> TRUE]}
    ELSE IF ~Exists(f, src) THEN {[fs |-> f, ok |-> FALSE]}
    ELSE IF a = "copy"
    THEN (IF src = dst THEN {[fs |-> f, ok |-> FALSE]}
          ELSE {[fs |-> f, ok |-> FALSE],
                [fs |-> AfterCreate(f, dst), ok |-> FALSE],
                [fs |-> AfterWrite(f, src, dst), ok |-> TRUE]})
    ELSE (IF src = dst THEN {[fs |-> f, ok |-> TRUE], [fs |-> f, ok |-> FALSE]}
          ELSE {[fs |-> f, ok |-> FALSE],
                [fs |-> AfterRename(f, src, dst), ok |-> TRUE],
                [fs |-> AfterCreate(f, dst), ok |-> FALSE],
                [fs |-> AfterWrite(f, src, dst), ok |-> FALSE]})

\* update(rname, fpath, action) (cache.py 367-389)
Update(p) ==
    /\ pc[p] = "idle"
    /\ CanCall
    /\ \E n \in Names, f \in ExtPaths, a \in FileActions :
        LET call == [NoOp EXCEPT !.name = "update", !.rname = n, !.fpath = f, !.action = a,
                                 !.src0 = fs[f]]
            found == RowsNamed(rows, n)
        IN /\ op' = [op EXCEPT ![p] = call]
           /\ IF ~Exists(fs, f)
              THEN \* FileNotFoundError
                   /\ res' = [res EXCEPT ![p] = Raised("SourceNotFound")]
                   /\ pc' = [pc EXCEPT ![p] = "done"]
                   /\ UNCHANGED <<rows, fs, loc>>
              ELSE IF found = {}
              THEN \* return self.add(rname=rname, fpath=fpath, action=action)
                   /\ CanAdd
                   /\ Query(p, call, "add")
                   /\ UNCHANGED <<rows, fs>>
              ELSE LET r == FirstRow(found)
                       old_path == r.rpath
                   IN \E c \in CopyOutcomes(fs, f, old_path, a), hashed \in BOOLEAN :
                        /\ fs' = c.fs
                        /\ loc' = loc
                        /\ pc' = [pc EXCEPT ![p] = "done"]
                        /\ IF c.ok /\ hashed /\ Exists(c.fs, old_path)
                           THEN LET new == [r EXCEPT !.last_modified_time = Some(now),
                                                      !.etag = Some(calculate_file_hash(c.fs[old_path]))]
                                IN /\ rows' = ReplaceRow(rows, r, new)
                                   /\ res' = [res EXCEPT ![p] = Result("row", Some(new), NoneName, c.fs[old_path])]
                           ELSE \* session.rollback(); raise
                                /\ rows' = AfterRollback(rows, r, [r EXCEPT !.last_modified_time = Some(now)])
                                /\ res' = [res EXCEPT ![p] = Raised("Storage")]
    /\ calls' = calls + 1
    /\ UNCHANGED <<cleanup_interval, now, last, store, mig>>

(* ----------------------------------------------------------------- remove *)

\* remove(rname) (cache.py 403-419): the file is unlinked when it exists,
\* then the row is deleted and committed; if either raises the session is
\* rolled back and remove raises
Remove(p) ==
    /\ pc[p] = "idle"
    /\ CanCall
    /\ \E n \in Names :
        LET found == RowsNamed(rows, n)
        IN /\ op' = [op EXCEPT ![p] = [NoOp EXCEPT !.name = "remove", !.rname = n]]
           /\ pc' = [pc EXCEPT ![p] = "done"]
           /\ IF found = {}
              THEN /\ res' = [res EXCEPT ![p] = Raised("None")]
                   /\ UNCHANGED <<rows, fs>>
              ELSE LET r == FirstRow(found)
                   IN \/ \* the unlink raises
                         /\ Exists(fs, r.rpath)
                         /\ res' = [res EXCEPT ![p] = Raised("Storage")]
                         /\ UNCHANGED <<rows, fs>>
                      \/ \* the commit raises
                         /\ fs' = AfterUnlink(fs, r.rpath)
                         /\ res' = [res EXCEPT ![p] = Raised("Storage")]
                         /\ rows' = rows
                      \/ /\ fs' = AfterUnlink(fs, r.rpath)
                         /\ rows' = RowsAfterDelete(rows, r.id)
                         /\ res' = [res EXCEPT ![p] = Raised("None")]
    /\ calls' = calls + 1
    /\ UNCHANGED <<cleanup_interval, now, loc, last, store, mig>>

(* ---------------------------------------------------------------- cleanup *)

Expired(rs, t) == {r \in rs : r.expires # NoValue /\ r.expires[1] < t}

UnlinkAll(f, ps) == [q \in DOMAIN f |-> IF q \in ps THEN Absent ELSE f[q]]

\* cleanup() (cache.py 166-192). The guard any([cleanup_interval,
\* _should_cleanup()]) is false when cleanup_interval is None; otherwise each
\* expired row's file is unlinked (missing_ok) and the row deleted, a row
\* whose unlink raises being skipped
Cleanup(p) ==
    /\ pc[p] = "idle"
    /\ CanCall
    /\ op' = [op EXCEPT ![p] = [NoOp EXCEPT !.name = "cleanup"]]
    /\ pc' = [pc EXCEPT ![p] = "done"]
    /\ IF cleanup_interval = NoValue
       THEN /\ res' = [res EXCEPT ![p] = Counted(0)]
            /\ UNCHANGED <<rows, fs>>
       ELSE LET expired == Expired(rows, now)
            IN \E failing \in SUBSET {r \in expired : Exists(fs, r.rpath)} :
                 LET removed == expired \ failing
                 IN /\ fs' = UnlinkAll(fs, {r.rpath : r \in removed})
                    /\ rows' = rows \ removed
                    /\ res' = [res EXCEPT ![p] = Counted(Cardinality(removed))]
    /\ calls' = calls + 1
    /\ UNCHANGED <<cleanup_interval, now, loc, last, store, mig>>

(* ------------------------------------------------------------------ purge *)

SweptAll(dir) == dir
\* the sweep of force mode (cache.py 602-610, 621-628): every file of the
\* cache directory whose name is not "BiocFileCache.sqlite"
Swept(dir) == {q \in dir : q # StorePath}

\* purge(force) (cache.py 586-631). All rows are deleted in the session and
\* each row's file unlinked in row order. Without force the first unlink
\* that raises rolls the session back and purge raises; with force it is
\* logged, and afterwards every file of the cache directory but the store
\* is unlinked. If the commit raises the rows stay.
Purge(p) ==
    /\ pc[p] = "idle"
    /\ CanCall
    /\ \E force \in BOOLEAN :
        LET rpaths == {r.rpath : r \in rows}
        IN /\ op' = [op EXCEPT ![p] = [NoOp EXCEPT !.name = "purge", !.force = force]]
           /\ pc' = [pc EXCEPT ![p] = "done"]
           /\ IF ~force
              THEN \/ \* every unlink and the commit succeed
                      /\ fs' = UnlinkAll(fs, rpaths)
                      /\ rows' = {}
                      /\ res' = [res EXCEPT ![p] = Raised("True")]
                   \/ \* the unlink of row k's file raises
                      \E k \in rows :
                         /\ Exists(fs, k.rpath)
                         /\ \A r \in rows : r.id < k.id => r.rpath # k.rpath
                         /\ fs' = UnlinkAll(fs, {r.rpath : r \in {q \in rows : q.id < k.id}})
                         /\ res' = [res EXCEPT ![p] = Raised("Storage")]
                         /\ rows' = rows
                   \/ \* the commit raises
                      /\ fs' = UnlinkAll(fs, rpaths)
                      /\ res' = [res EXCEPT ![p] = Raised("Storage")]
                      /\ rows' = rows
              ELSE \E failing \in SUBSET {q \in rpaths \cup Swept(CacheDir) : Exists(fs, q)},
                      committed \in BOOLEAN :
                      /\ fs' = UnlinkAll(fs, (rpaths \cup Swept(CacheDir)) \ failing)
                      /\ IF committed
                         THEN /\ rows' = {}
                              /\ res' = [res EXCEPT ![p] = Raised("True")]
                         ELSE /\ res' = [res EXCEPT ![p] = Raised("False")]
                              /\ rows' = rows
    /\ calls' = calls + 1
    /\ UNCHANGED <<cleanup_interval, now, loc, last, store, mig>>

(* ------------------------------------------------------ the specifications *)

\* one caller
Caller == "p1"

Next ==
    \/ Tick
    \/ Return(Caller)
    \/ CallGet(Caller)
    \/ GetPoll(Caller)
    \/ CallAdd(Caller)
    \/ AddInsert(Caller)
    \/ AddCopy(Caller)
    \/ AddWrite(Caller)
    \/ AddUnlink(Caller)
    \/ AddHash(Caller)
    \/ Update(Caller)
    \/ Remove(Caller)
    \/ Cleanup(Caller)
    \/ Purge(Caller)

Spec == Init /\ [][Next]_vars

\* two processes, each with its own cache object on the same directory;
\* each makes one call, an add or a get
NextConc ==
    \/ \E p \in Procs : CallGet(p)
    \/ \E p \in Procs : GetPoll(p)
    \/ \E p \in Procs : CallAdd(p)
    \/ \E p \in Procs : AddInsert(p)
    \/ \E p \in Procs : AddCopy(p)
    \/ \E p \in Procs : AddWrite(p)
    \/ \E p \in Procs : AddUnlink(p)
    \/ \E p \in Procs : AddHash(p)

SpecConc == Init /\ [][NextConc]_vars

\* a cache directory opened again, holding what add("A", ext 1) and
\* add("B", ext 2) of an earlier run left there
StockedRow(id, n, data) ==
    [id |-> id, rid |-> generate_id(id - 1), rname |-> n, rpath |-> CachePath(id),
     etag |-> Some(calculate_file_hash(data)), expires |-> NoValue,
     create_time |-> 1, access_time |-> 1, last_modified_time |-> Some(1)]
StockedRows == {StockedRow(1, "A", "a"), StockedRow(2, "B", "b")}
StockedFs == [InitFs EXCEPT ![CachePath(1)] = "a", ![CachePath(2)] = "b"]

InitStocked ==
    /\ cleanup_interval = Some(1)
    /\ rows = StockedRows
    /\ fs = StockedFs
    /\ now = 1
    /\ calls = 0
    /\ pc = [p \in Procs |-> "idle"]
    /\ op = [p \in Procs |-> NoOp]
    /\ loc = [p \in Procs |-> NoLoc]
    /\ res = [p \in Procs |-> NoResult]
    /\ last = [p \in Procs |-> NoOp]
    /\ store = LibraryStore
    /\ mig = OpenedMig

SpecStocked == InitStocked /\ [][Next]_vars

\* the stocked directory is a state the single caller's runs reach from the
\* empty cache
StockedReached == rows = StockedRows /\ fs = StockedFs /\ pc[Caller] = "idle"

(* ------------------------------------------------------------- properties *)

\* a step that ends the get with which add looks for its rname
AddFoundName(p) == pc[p] = "get_poll" /\ loc[p].ret = "add" /\ pc'[p] = "done"

\* C1: when add is called with an rname that is in the table, add raises the
\* name-exists error and the table (the existing row with its access_time
\* among it) and the files are as they were.
C1_AddExistingLeavesRow ==
    [][\A p \in Procs :
         AddFoundName(p) => res'[p].kind = "NameExists" /\ rows' = rows /\ fs' = fs]_vars

\* the get that follows a successful add of the same name has returned
GetAfterAdd(p) ==
    /\ pc[p] = "done"
    /\ op[p].name = "get"
    /\ last[p].name = "add"
    /\ op[p].rname = last[p].rname

\* C2: after add(rname, fpath, copy or move) has returned, get(rname) returns
\* a row whose rpath exists and holds what the source file held when add was
\* called; after a copy the source is still at fpath with that content, after
\* a move no file is at fpath.
C2_AddThenGet ==
    \A p \in Procs :
      GetAfterAdd(p) /\ last[p].action # "asis" =>
        /\ res[p].kind = "row"
        /\ Exists(fs, res[p].row[1].rpath)
        /\ fs[res[p].row[1].rpath] = last[p].src0
        /\ res[p].seen = last[p].src0
        /\ last[p].action = "copy" => fs[last[p].fpath] = last[p].src0
        /\ last[p].action = "move" => fs[last[p].fpath] = Absent

\* a get after an add that moved the source has returned the row
C2_Witness ==
    /\ GetAfterAdd(Caller)
    /\ last[Caller].action = "move"
    /\ res[Caller].kind = "row"
    /\ fs[last[Caller].fpath] = Absent

AddStages == {"add_insert", "add_copy", "add_write", "add_unlink", "add_hash"}

\* the row add has built is committed in the table
Committed(p) == loc[p].new.id > 0 /\ RowsWithId(rows, loc[p].new.id) # {}

\* C3: add inserts and commits its row before it touches any file: every
\* step of add that changes a file is taken with the row committed, and an
\* add whose insert fails has changed no file.
C3_RowBeforeFile ==
    [][\A p \in Procs :
         /\ (pc[p] \in AddStages /\ fs' # fs) => Committed(p)
         /\ (pc[p] = "add_insert" /\ pc'[p] = "done") => fs' = fs /\ rows' = rows]_vars

\* add has copied or moved the file and is about to compute the checksum
C3_Witness ==
    /\ pc[Caller] = "add_hash"
    /\ op[Caller].action \in {"copy", "move"}
    /\ Committed(Caller)
    /\ fs[loc[Caller].new.rpath] = op[Caller].src0

OtherRows(rs, n) == {r \in rs : r.rname # n}

BothAdded ==
    /\ \A p \in Procs : pc[p] = "done" /\ op[p].name = "add" /\ res[p].kind \in {"row", "NameExists"}
    /\ op["p1"].rname = op["p2"].rname

\* C5: of two concurrent adds of one rname exactly one succeeds and the other
\* raises the name-exists error; the table never holds two rows of one rname.
C5_OneAddWins ==
    /\ \A n \in Names : Cardinality(RowsNamed(rows, n)) <= 1
    /\ BothAdded => {res[p].kind : p \in Procs} = {"row", "NameExists"}

\* C6: no two rows have the same rid, and no step changes the rid of a row.
C6_RidUnique ==
    /\ [](\A r1 \in rows, r2 \in rows : r1.rid = r2.rid => r1 = r2)
    /\ [][\A r1 \in rows, r2 \in rows' : r1.id = r2.id => r1.rid = r2.rid]_vars

\* C7: a get that runs beside an add returns the row only once the file at its
\* rpath is written in full.
C7_GetSeesWholeFile ==
    \A p \in Procs :
      (pc[p] = "done" /\ op[p].name = "get" /\ res[p].kind = "row") => res[p].seen # Partial

\* C8: a get whose wait for the path times out raises the path-timeout error
\* naming the resource, returns no row and leaves the row it found in the
\* table as it was.
C8_TimeoutNamesResource ==
    \A p \in Procs :
      (pc[p] = "done" /\ op[p].name = "get" /\ res[p].kind = "Timeout") =>
        /\ res[p].named = loc[p].row.rname
        /\ res[p].row = NoValue
        /\ loc[p].row \in rows

\* the rows added with action "asis": their rpath is the caller's own path
AsisRows(rs) == {r \in rs : r.rpath \in ExtPaths}

\* C9: no remove, cleanup or purge deletes the file of a row that was added
\* with action "asis".
C9_AsisFileKept ==
    [][\A p \in Procs :
         (pc[p] = "idle" /\ op'[p].name \in {"remove", "cleanup", "purge"}) =>
            \A r \in AsisRows(rows) : fs'[r.rpath] = fs[r.rpath]]_vars

\* C10: an update of a row that was added with action "asis" leaves the file
\* at the caller's original path as it was.
C10_UpdateKeepsAsisFile ==
    [][\A p \in Procs :
         (pc[p] = "idle" /\ op'[p].name = "update") =>
            \A r \in AsisRows(RowsNamed(rows, op'[p].rname)) : fs'[r.rpath] = fs[r.rpath]]_vars

\* C11: an add with action "asis" stores the source path as rpath, changes
\* no file (none is created in the cache directory) and returns with the
\* source in place, holding what it held.
C11_AsisStoresSourcePath ==
    /\ [](\A p \in Procs :
            (pc[p] \in AddStages /\ op[p].action = "asis") => loc[p].new.rpath = op[p].fpath)
    /\ [](\A p \in Procs :
            (pc[p] = "done" /\ loc[p].ret = "add" /\ op[p].action = "asis" /\ res[p].kind = "row") =>
               /\ res[p].row[1].rpath = op[p].fpath
               /\ res[p].row[1] \in rows
               /\ fs[op[p].fpath] = op[p].src0)
    /\ [][\A p \in Procs :
            (pc[p] \in AddStages /\ op[p].action = "asis") => fs' = fs]_vars

\* an add with action "asis" has returned its row, the cache directory empty
C11_Witness ==
    /\ pc[Caller] = "done"
    /\ op[Caller].name = "add"
    /\ op[Caller].action = "asis"
    /\ res[Caller].kind = "row"
    /\ \A q \in CachePaths : ~Exists(fs, q)

\* the step that is a call of remove by p, and the row it finds
RemoveStep(p) == pc[p] = "idle" /\ op'[p].name = "remove"
RemoveFound(p) == RowsNamed(rows, op'[p].rname)

\* C12: a remove(n) that returns, of a row whose file the cache owns, leaves
\* no row named n (get(n) finds none) and no file at its rpath, every other
\* row and file as it was; remove(n) with no row named n changes nothing.
C12_RemoveDeletesRowAndFile ==
    [][\A p \in Procs :
         (RemoveStep(p) /\ res'[p].kind = "None") =>
            IF RemoveFound(p) = {}
            THEN rows' = rows /\ fs' = fs
            ELSE LET r == FirstRow(RemoveFound(p))
                 IN r.rpath \in CachePaths =>
                      /\ RowsNamed(rows', r.rname) = {}
                      /\ rows' = rows \ {r}
                      /\ ~Exists(fs', r.rpath)
                      /\ \A q \in Paths \ {r.rpath} : fs'[q] = fs[q]]_vars

\* remove has returned from deleting a row whose file was in the cache
\* directory, another row staying
C12_Witness ==
    /\ pc[Caller] = "done"
    /\ op[Caller].name = "remove"
    /\ res[Caller].kind = "None"
    /\ RowsNamed(rows, op[Caller].rname) = {}
    /\ rows # {}
    /\ ~Exists(fs, CachePath(1))
    /\ Exists(fs, CachePath(2))

\* C13: when the deletion of the backing file fails during remove (the file
\* was there and still is), remove still deletes the row.
C13_RemoveRowDespiteFile ==
    [][\A p \in Procs :
         (RemoveStep(p) /\ RemoveFound(p) # {}) =>
            LET r == FirstRow(RemoveFound(p))
            IN (Exists(fs, r.rpath) /\ Exists(fs', r.rpath)) => r \notin rows']_vars

\* C14: no remove, whichever of its steps fails, ends with the row in the
\* table and its backing file deleted.
C14_RemoveNeverOrphansRow ==
    [][\A p \in Procs :
         (RemoveStep(p) /\ RemoveFound(p) # {}) =>
            LET r == FirstRow(RemoveFound(p))
            IN ~(r \in rows' /\ Exists(fs, r.rpath) /\ ~Exists(fs', r.rpath))]_vars

\* the step that is a call of update by p, the rows of its name and the state
\* of its source
UpdateStep(p) == pc[p] = "idle" /\ op'[p].name = "update"
UpdateFound(p) == RowsNamed(rows, op'[p].rname)

\* C15: update(n, f, action) with no row named n goes on exactly as
\* add(n, f, action) does: it changes nothing itself and is at add's first
\* step with the Resource add builds.
C15_UpdateOfNewNameIsAdd ==
    [][\A p \in Procs :
         (UpdateStep(p) /\ UpdateFound(p) = {}) =>
            /\ pc'[p] = AddStageAfter("prepare")
            /\ loc'[p].ret = "add"
            /\ loc'[p].new = Prepared(op'[p])
            /\ rows' = rows /\ fs' = fs]_vars

\* C16: an update with action copy or move that returns the row of an
\* existing name has put the new source's content at the row's rpath and its
\* checksum in etag (another etag when the content differs); the other rows,
\* the number of rows and the row's id, rid, rname, rpath and create_time are
\* as they were, and a get that returns a row returns the content at its rpath.
C16_UpdateReplacesContent ==
    /\ [][\A p \in Procs :
            (UpdateStep(p) /\ UpdateFound(p) # {} /\ op'[p].action # "asis" /\ res'[p].kind = "row") =>
               LET r == FirstRow(UpdateFound(p))
                   new == res'[p].row[1]
                   data == fs[op'[p].fpath]
               IN /\ fs'[r.rpath] = data
                  /\ res'[p].seen = data
                  /\ new.etag = Some(calculate_file_hash(data))
                  /\ (r.etag = Some(calculate_file_hash(fs[r.rpath])) /\ fs[r.rpath] # data)
                        => new.etag # r.etag
                  /\ rows' = (rows \ {r}) \cup {new}
                  /\ Cardinality(rows') = Cardinality(rows)
                  /\ new.id = r.id /\ new.rid = r.rid /\ new.rname = r.rname
                  /\ new.rpath = r.rpath /\ new.create_time = r.create_time]_vars
    /\ [](\A p \in Procs :
            (pc[p] = "done" /\ op[p].name = "get" /\ res[p].kind = "row") =>
               /\ res[p].row[1] \in rows
               /\ res[p].seen = fs[res[p].row[1].rpath])

\* an update by copy has returned the row, its file holding other data than
\* when the row was added
C16_Witness ==
    /\ pc[Caller] = "done"
    /\ op[Caller].name = "update"
    /\ op[Caller].action = "copy"
    /\ res[Caller].kind = "row"
    /\ res[Caller].row[1].rpath \in CachePaths
    /\ res[Caller].row[1].create_time < now
    /\ res[Caller].seen = "b"
    /\ op[Caller].rname = "A"
    /\ fs[CachePath(1)] = "b"

\* C17: an update with action "asis" that returns the row of an existing name
\* has set the row's rpath to the new source path and changed no file.
C17_UpdateAsisRepoints ==
    [][\A p \in Procs :
         (UpdateStep(p) /\ UpdateFound(p) # {} /\ op'[p].action = "asis" /\ res'[p].kind = "row") =>
            /\ res'[p].row[1].rpath = op'[p].fpath
            /\ fs' = fs]_vars

\* C18: an update that returns the row of an existing name has set
\* last_modified_time and access_time to the time of the update and etag to
\* the checksum of the file at rpath.
C18_UpdateSetsTimes ==
    [][\A p \in Procs :
         (UpdateStep(p) /\ UpdateFound(p) # {} /\ res'[p].kind = "row") =>
            LET new == res'[p].row[1]
            IN /\ new.last_modified_time = Some(now)
               /\ new.access_time = now
               /\ new.etag = Some(calculate_file_hash(fs'[new.rpath]))]_vars

\* C19: an update of an existing name whose copy/move or checksum fails
\* raises the storage error and leaves the table as it was: the row's fields
\* are those of before the call and no row is added or removed.
C19_FailedUpdateKeepsRow ==
    [][\A p \in Procs :
         (UpdateStep(p) /\ UpdateFound(p) # {} /\ Exists(fs, op'[p].fpath) /\ res'[p].kind # "row") =>
            res'[p].kind = "Storage" /\ rows' = rows]_vars

\* an update has raised the storage error at a later time than the row was
\* last written, the copy having stopped midway
C19_Witness ==
    /\ pc[Caller] = "done"
    /\ op[Caller].name = "update"
    /\ res[Caller].kind = "Storage"
    /\ \E r \in RowsNamed(rows, op[Caller].rname) :
          /\ fs[r.rpath] = Partial
          /\ r.last_modified_time # Some(now)

\* a cache opened with the default configuration: CacheConfig's
\* cleanup_interval is None (config.py 39)
InitDefault ==
    /\ cleanup_interval = NoValue
    /\ rows = {}
    /\ fs = InitFs
    /\ now = 1
    /\ calls = 0
    /\ pc = [p \in Procs |-> "idle"]
    /\ op = [p \in Procs |-> NoOp]
    /\ loc = [p \in Procs |-> NoLoc]
    /\ res = [p \in Procs |-> NoResult]
    /\ last = [p \in Procs |-> NoOp]
    /\ store = LibraryStore
    /\ mig = OpenedMig

SpecDefault == InitDefault /\ [][Next]_vars

\* the step that is a call of cleanup by p
CleanupStep(p) == pc[p] = "idle" /\ op'[p].name = "cleanup"

\* C20: cleanup deletes exactly the rows whose expires is set and earlier
\* than the current time, and their files; the other rows and files are as
\* they were, and the number of rows falls by the number of expired rows,
\* which cleanup returns.
C20_CleanupRemovesExpired ==
    [][\A p \in Procs :
         CleanupStep(p) =>
            LET expired == Expired(rows, now)
            IN /\ rows' = rows \ expired
               /\ \A r \in expired : ~Exists(fs', r.rpath)
               /\ \A q \in Paths \ {r.rpath : r \in expired} : fs'[q] = fs[q]
               /\ Cardinality(rows') = Cardinality(rows) - Cardinality(expired)
               /\ res'[p].val = Cardinality(expired)]_vars

\* C21: an explicit cleanup call removes every expired row, with or without
\* a configured cleanup_interval and at any time since the last cleanup.
C21_ExplicitCleanupRuns ==
    [][\A p \in Procs :
         CleanupStep(p) => \A r \in Expired(rows, now) : r \notin rows']_vars

\* the step that is a call of purge by p
PurgeStep(p) == pc[p] = "idle" /\ op'[p].name = "purge"

\* C22: a purge without force ends with no row and every backing file
\* removed, or with an error and everything as it was before the call: no row
\* removed and the operation undone.
C22_PurgeAllOrNothing ==
    [][\A p \in Procs :
         (PurgeStep(p) /\ ~op'[p].force) =>
            \/ /\ res'[p].kind = "True"
               /\ rows' = {}
               /\ \A r \in rows : ~Exists(fs', r.rpath)
            \/ /\ res'[p].kind = "Storage"
               /\ rows' = rows
               /\ fs' = fs]_vars

ValidateAlways(r, f) == TRUE
\* validate_resource(resource) (cache.py 459-477): true without a recorded
\* checksum; otherwise the file's checksum is compared with etag, and a file
\* that cannot be read (it is missing) makes it false
validate_resource(r, f) ==
    IF r.etag = NoValue THEN TRUE
    ELSE IF ~Exists(f, r.rpath) THEN FALSE
    ELSE Some(calculate_file_hash(f[r.rpath])) = r.etag

\* the rows verify_cache counts as valid and as invalid (cache.py 518-523)
ValidRows(rs, f) == {r \in rs : validate_resource(r, f)}
InvalidRowsAll(rs, f) == rs
InvalidRows(rs, f) == {r \in rs : ~validate_resource(r, f)}

\* the tuple (valid_count, invalid_count) verify_cache returns
Verified(valid, invalid) == [Raised("counts") EXCEPT !.val = <<valid, invalid>>]

\* the caller holds a Resource that a call returned
Holds(p) == pc[p] = "done" /\ res[p].kind = "row"

\* something outside the cache truncates, rewrites or deletes the file of the
\* resource the caller holds
Tamper(p) ==
    /\ Holds(p)
    /\ \E d \in (Contents \cup {Partial, Absent}) \ {fs[res[p].row[1].rpath]} :
          fs' = [fs EXCEPT ![res[p].row[1].rpath] = d]
    /\ UNCHANGED <<cleanup_interval, rows, now, calls, pc, op, loc, res, last, store, mig>>

\* validate_resource on the Resource the caller holds, or on a Resource of
\* the same row read before its checksum was recorded
Validate(p) ==
    /\ Holds(p)
    /\ \E x \in {res[p].row[1], [res[p].row[1] EXCEPT !.etag = NoValue]} :
          res' = [res EXCEPT ![p].kind = IF validate_resource(x, fs) THEN "True" ELSE "False",
                             ![p].row = Some(x)]
    /\ op' = [op EXCEPT ![p].name = "validate_resource"]
    /\ UNCHANGED <<cleanup_interval, rows, fs, now, calls, pc, loc, last, store, mig>>

\* verify_cache() (cache.py 512-524): list_resources() and validate_resource
\* on each row
VerifyCache(p) ==
    /\ pc[p] = "idle"
    /\ CanCall
    /\ op' = [op EXCEPT ![p] = [NoOp EXCEPT !.name = "verify_cache"]]
    /\ pc' = [pc EXCEPT ![p] = "done"]
    /\ res' = [res EXCEPT ![p] = Verified(Cardinality(ValidRows(rows, fs)),
                                          Cardinality(InvalidRows(rows, fs)))]
    /\ calls' = calls + 1
    /\ UNCHANGED <<cleanup_interval, rows, fs, now, loc, last, store, mig>>

\* one caller that adds resources, validates what add returned and verifies
\* the cache, the files being changed from outside meanwhile
NextVerify ==
    \/ Return(Caller)
    \/ CallAdd(Caller)
    \/ GetPoll(Caller)
    \/ AddInsert(Caller)
    \/ AddCopy(Caller)
    \/ AddWrite(Caller)
    \/ AddUnlink(Caller)
    \/ AddHash(Caller)
    \/ Tamper(Caller)
    \/ Validate(Caller)
    \/ VerifyCache(Caller)

SpecVerify == Init /\ [][NextVerify]_vars

\* the step that is a call of validate_resource by p
ValidateStep(p) == Holds(p) /\ op'[p].name = "validate_resource"

\* C24: validate_resource on the Resource add returned is true when the file
\* at rpath holds what it held when add returned and false when its content
\* was changed or it was removed; on a Resource with no checksum it is true
\* whatever the file.
C24_ValidateRoundTrip ==
    [][\A p \in Procs :
         (ValidateStep(p) /\ loc[p].ret = "add") =>
            LET x == res'[p].row[1]
            IN /\ x.etag = NoValue => res'[p].kind = "True"
               /\ (x.etag # NoValue /\ fs[x.rpath] = res[p].seen) => res'[p].kind = "True"
               /\ (x.etag # NoValue /\ fs[x.rpath] # res[p].seen) => res'[p].kind = "False"]_vars

\* validate_resource has returned false for the Resource add returned, its
\* file having been changed since
C24_Witness ==
    /\ pc[Caller] = "done"
    /\ op[Caller].name = "validate_resource"
    /\ loc[Caller].ret = "add"
    /\ res[Caller].kind = "False"
    /\ res[Caller].row[1].etag # NoValue
    /\ fs[res[Caller].row[1].rpath] = Partial

\* the step that is a call of verify_cache by p
VerifyStep(p) == pc[p] = "idle" /\ op'[p].name = "verify_cache"

\* C25: verify_cache changes no row and no file, and the two counts it
\* returns add up to the number of rows.
C25_VerifyReadOnly ==
    [][\A p \in Procs :
         VerifyStep(p) =>
            /\ rows' = rows
            /\ fs' = fs
            /\ res'[p].val[1] + res'[p].val[2] = Cardinality(rows)]_vars

\* verify_cache has counted a valid and an invalid row, both still there
C25_Witness ==
    /\ pc[Caller] = "done"
    /\ op[Caller].name = "verify_cache"
    /\ res[Caller].val = <<1, 1>>
    /\ Cardinality(rows) = 2

(* ------------------------------------------ opening a store, its metadata *)

\* the metadata rows holding the schema version
VersionRows(meta) == {m \in meta : m.key = VersionKey}
\* the value a SELECT of the schema version returns, when there is a row
VersionOf(meta) == (CHOOSE m \in VersionRows(meta) : TRUE).value
\* the tables of a store after create_all: a missing table is created, an
\* existing one is left as it is
AfterCreateAll(st) ==
    IF st.made THEN st
    ELSE [made |-> TRUE, meta |-> {}, columns |-> BaseColumns, indexes |-> BaseIndexes]
\* a variant of _setup_database that inserts the version row without looking
AfterSetupInsert(meta) == meta \cup {MetaRow(VersionKey, SCHEMA_VERSION)}
\* _setup_database's metadata: a recorded version is kept, a missing one is
\* inserted as SCHEMA_VERSION and committed
AfterSetup(meta) ==
    IF VersionRows(meta) # {} THEN meta
    ELSE meta \cup {MetaRow(VersionKey, SCHEMA_VERSION)}
\* the version _setup_database returns
SetupVersion(meta) ==
    IF VersionRows(meta) # {} THEN VersionOf(meta) ELSE SCHEMA_VERSION

CanCallSchema == mig.pc = "idle" /\ calls < MaxCalls
Call(name, key, arg, kind, val) ==
    [name |-> name, key |-> key, arg |-> arg, kind |-> kind, val |-> val,
     before |-> store]

\* BiocFileCache(cache_dir): the tables are created, the version is read or
\* recorded, and a version other than SCHEMA_VERSION raises RuntimeError
Open ==
    /\ CanCallSchema
    /\ LET made == AfterCreateAll(store)
           v == SetupVersion(made.meta)
       IN /\ store' = [made EXCEPT !.meta = AfterSetup(made.meta)]
          /\ mig' = [mig EXCEPT !.pc = "done",
                                !.call = Call("open", "none", "none",
                                              IF v = SCHEMA_VERSION THEN "opened"
                                              ELSE "RuntimeError", v),
                                !.opened = mig.opened \/ v = SCHEMA_VERSION]
    /\ calls' = calls + 1
    /\ UNCHANGED <<cleanup_interval, rows, fs, now, pc, op, loc, res, last>>

\* the call on the schema returns to its caller
MigReturn ==
    /\ mig.pc = "done"
    /\ mig' = [mig EXCEPT !.pc = "idle", !.call = NoCall, !.prev = mig.call]
    /\ UNCHANGED <<cleanup_interval, rows, fs, now, calls, pc, op, loc, res, last, store>>

\* a store an older release made: the base tables, its version recorded or,
\* older still, no version row at all
OldStore == [LibraryStore EXCEPT !.meta = {MetaRow(VersionKey, OldVersion)}]
UnversionedStore == [LibraryStore EXCEPT !.meta = {}]
SchemaStores == {FreshStore, LibraryStore, OldStore, UnversionedStore}

MetaKeys == {VersionKey, "k"}
MetaValues == {"v", OldVersion}
\* check_metadata_key
HasKey(meta, k) == \E m \in meta : m.key = k
\* the value a lookup of the key yields
ValueOf(meta, k) == (CHOOSE m \in meta : m.key = k).value

\* add_metadata(key, value): when the key exists a second row with that
\* primary key is added, which the store refuses at the commit, and get_session
\* rolls back; when the key does not exist the call raises at once
AddMetadata ==
    /\ CanCallSchema
    /\ mig.opened
    /\ \E k \in MetaKeys, v \in MetaValues :
         LET exists == HasKey(store.meta, k) IN
           mig' = [mig EXCEPT !.pc = "done",
                              !.call = Call("add_metadata", k, v,
                                            IF exists THEN "IntegrityError"
                                            ELSE "Exception", "none")]
    /\ calls' = calls + 1
    /\ UNCHANGED <<cleanup_interval, rows, fs, now, pc, op, loc, res, last, store>>

(* ------------------------------------------------------------- Migrator *)

\* _detect_version_from_structure
DetectVersion(columns) ==
    IF "is_compressed" \in columns THEN NewVersion
    ELSE IF "tags" \in columns /\ "size_bytes" \in columns THEN NewVersion
    ELSE OldVersion
\* the metadata once a connection that executed statements without a commit
\* is closed: its transaction is rolled back
AfterClose(meta, pending) == meta
\* get_current_version's result
CurrentVersion(st) ==
    IF VersionRows(st.meta) # {} THEN VersionOf(st.meta) ELSE DetectVersion(st.columns)
\* get_current_version's store: the detected version is inserted on a
\* connection that is closed without a commit
AfterGetVersion(st) ==
    IF VersionRows(st.meta) # {} THEN st
    ELSE [st EXCEPT !.meta = AfterClose(st.meta,
                                        st.meta \cup {MetaRow(VersionKey, DetectVersion(st.columns))})]

GetCurrentVersion ==
    /\ CanCallSchema
    /\ store.made
    /\ store' = AfterGetVersion(store)
    /\ mig' = [mig EXCEPT !.pc = "done",
                          !.call = Call("get_current_version", "none", "none",
                                        "returned", CurrentVersion(store))]
    /\ calls' = calls + 1
    /\ UNCHANGED <<cleanup_interval, rows, fs, now, pc, op, loc, res, last>>

\* UPDATE metadata SET value = v WHERE key = 'schema_version'
SetVersion(meta, v) ==
    {IF m.key = VersionKey THEN [m EXCEPT !.value = v] ELSE m : m \in meta}
\* two rows share a name, which a unique index on rname refuses
SharedName(rs) == \E r1 \in rs, r2 \in rs : r1.id # r2.id /\ r1.rname = r2.rname
Outcome(st, kind) == [store |-> st, kind |-> kind]
\* MigrationV0_5_0.up. Each ALTER TABLE is committed as it runs, the driver
\* opening its transaction only at the first UPDATE; the backfill calls the SQL
\* function readfile, which the connection has or has not; a failure after the
\* UPDATE began rolls back to the store with both columns added
Up(st, rs, readfile) ==
    LET st1 == [st EXCEPT !.columns = @ \cup {"tags"}]
        st2 == [st1 EXCEPT !.columns = @ \cup {"size_bytes"}]
        st3 == [st2 EXCEPT !.indexes = @ \cup AddedIndexes,
                           !.meta = SetVersion(@, NewVersion)]
    IN IF "tags" \in st.columns THEN Outcome(st, "OperationalError")
       ELSE IF "size_bytes" \in st1.columns THEN Outcome(st1, "OperationalError")
       ELSE IF ~readfile THEN Outcome(st2, "OperationalError")
       ELSE IF "ix_resource_rname" \notin st2.indexes /\ SharedName(rs)
            THEN Outcome(st2, "IntegrityError")
       ELSE Outcome(st3, "migrated")
\* MigrationV0_5_0.down: the indexes are dropped when they exist, then each
\* column, every one of these committed as it runs, then the version is set
Down(st) ==
    LET st1 == [st EXCEPT !.indexes = @ \ AddedIndexes]
        st2 == [st1 EXCEPT !.columns = @ \ {"size_bytes"}]
        st3 == [st2 EXCEPT !.columns = @ \ {"tags"}]
        st4 == [st3 EXCEPT !.meta = SetVersion(@, OldVersion)]
    IN IF "size_bytes" \notin st1.columns THEN Outcome(st1, "OperationalError")
       ELSE IF "tags" \notin st2.columns THEN Outcome(st2, "OperationalError")
       ELSE Outcome(st4, "migrated")

\* the versions a caller asks for: None for the latest, the two known ones
\* and one the migrator has no path to
Targets == {"None", OldVersion, NewVersion, "0.3.0"}
TargetVersion(t) == IF t = "None" THEN NewVersion ELSE t
\* a variant of migrate that runs the upgrade or the downgrade for any target
\* other than the current version
MigrateAnyPath(st, rs, t, readfile) ==
    IF CurrentVersion(st) = TargetVersion(t) THEN Outcome(AfterGetVersion(st), "already")
    ELSE IF TargetVersion(t) = NewVersion THEN Up(AfterGetVersion(st), rs, readfile)
    ELSE Down(AfterGetVersion(st))
\* Migrator.migrate(target_version)
MigrateOutcome(st, rs, t, readfile) ==
    LET current == CurrentVersion(st)
        read == AfterGetVersion(st)
        target == TargetVersion(t)
    IN IF current = target THEN Outcome(read, "already")
       ELSE IF current = OldVersion /\ target = NewVersion THEN Up(read, rs, readfile)
       ELSE IF current = NewVersion /\ target = OldVersion THEN Down(read)
       ELSE Outcome(read, "ValueError")

Migrate ==
    /\ CanCallSchema
    /\ store.made
    /\ \E t \in Targets, readfile \in BOOLEAN :
         LET out == MigrateOutcome(store, rows, t, readfile) IN
           /\ store' = out.store
           /\ mig' = [mig EXCEPT !.pc = "done",
                                 !.call = Call("migrate",
                                               IF readfile THEN "readfile" ELSE "none",
                                               TargetVersion(t), out.kind,
                                               CurrentVersion(store))]
    /\ calls' = calls + 1
    /\ UNCHANGED <<cleanup_interval, rows, fs, now, pc, op, loc, res, last>>

\* the rows two adds of one name leave when both insert
SharedRows == {StockedRow(1, "A", "a"), StockedRow(2, "A", "b")}

\* a directory before the first call: fresh, or holding a store with rows
InitSchema ==
    /\ cleanup_interval = Some(1)
    /\ store \in SchemaStores
    /\ rows \in IF store.made THEN {StockedRows, SharedRows} ELSE {{}}
    /\ fs = IF store.made THEN StockedFs ELSE [InitFs EXCEPT ![StorePath] = Absent]
    /\ now = 1
    /\ calls = 0
    /\ pc = [p \in Procs |-> "idle"]
    /\ op = [p \in Procs |-> NoOp]
    /\ loc = [p \in Procs |-> NoLoc]
    /\ res = [p \in Procs |-> NoResult]
    /\ last = [p \in Procs |-> NoOp]
    /\ mig = NoMig

NextSchema ==
    \/ Open
    \/ AddMetadata
    \/ GetCurrentVersion
    \/ Migrate
    \/ MigReturn

SpecSchema == InitSchema /\ [][NextSchema]_vars

(* ------------------------------------------ claims on the store's schema *)

\* a step in which the named call on the schema runs
SchemaStep(name) == mig.pc = "idle" /\ mig'.pc = "done" /\ mig'.call.name = name
\* the store records exactly this version
Records(st, v) == VersionRows(st.meta) = {MetaRow(VersionKey, v)}

\* C26: opening a fresh directory stores exactly one schema_version row
\* holding the latest version; opening a directory that records the latest
\* version succeeds, reports that version and leaves the store as it is; opening
\* a store that records another version fails and leaves the store as it is;
\* the store never holds two schema_version rows.
C26_OpenRecordsVersionOnce ==
    /\ [](Cardinality(VersionRows(store.meta)) <= 1)
    /\ [][SchemaStep("open") =>
            /\ ~store.made =>
                 /\ Records(store', SCHEMA_VERSION)
                 /\ mig'.call.kind = "opened" /\ mig'.call.val = SCHEMA_VERSION
            /\ store.made /\ Records(store, SCHEMA_VERSION) =>
                 /\ store' = store
                 /\ mig'.call.kind = "opened" /\ mig'.call.val = SCHEMA_VERSION
            /\ store.made /\ VersionRows(store.meta) # {}
                 /\ ~Records(store, SCHEMA_VERSION) =>
                 /\ store' = store
                 /\ mig'.call.kind = "RuntimeError"]_vars
\* a fresh directory was opened, and has now been opened again
C26_Witness ==
    /\ mig.pc = "done" /\ mig.call.name = "open" /\ mig.call.kind = "opened"
    /\ mig.prev.name = "open" /\ mig.prev.kind = "opened" /\ ~mig.prev.before.made
    /\ Records(store, SCHEMA_VERSION)

\* C27: add_metadata(k, v) for a key not in the metadata table stores k with
\* value v and does not raise; for a key in the table it raises and leaves the
\* metadata as it was.
C27_AddMetadataStoresNewKey ==
    [][SchemaStep("add_metadata") =>
         LET k == mig'.call.key
             v == mig'.call.arg
         IN IF HasKey(store.meta, k)
            THEN mig'.call.kind \in {"IntegrityError", "Exception"}
                 /\ store'.meta = store.meta
            ELSE mig'.call.kind \notin {"IntegrityError", "Exception"}
                 /\ HasKey(store'.meta, k) /\ ValueOf(store'.meta, k) = v]_vars

\* C28: without a schema_version key, get_current_version returns the version
\* inferred from the resource table's columns and the store then records that
\* version; with the key it returns the stored value and the store is as before.
C28_VersionPersisted ==
    [][SchemaStep("get_current_version") =>
         IF VersionRows(store.meta) = {}
         THEN mig'.call.val = DetectVersion(store.columns)
              /\ Records(store', mig'.call.val)
         ELSE mig'.call.val = VersionOf(store.meta) /\ store' = store]_vars

\* the resource table's columns and indexes and the recorded version
Shape(st) ==
    [columns |-> st.columns, indexes |-> st.indexes, version |-> VersionRows(st.meta)]
\* a store at the old version, and one at the new version
AtOld(st) == Records(st, OldVersion) /\ st.columns = BaseColumns /\ st.indexes = BaseIndexes
AtNew(st) == Records(st, NewVersion)
\* migrate(to) then migrate(from) have been called, one after the other
RoundTrip(from, to) ==
    /\ mig.pc = "done" /\ mig.call.name = "migrate" /\ mig.call.arg = from
    /\ mig.prev.name = "migrate" /\ mig.prev.arg = to

\* C29: from a store at the old version, migrate to the new version and then
\* to the old one leaves the columns, the indexes and the recorded version as
\* they were at the start; so does, from a store at the new version, migrate
\* to the old version and then to the new one.
C29_MigrateRoundTrip ==
    /\ RoundTrip(OldVersion, NewVersion) /\ AtOld(mig.prev.before)
         => Shape(store) = Shape(mig.prev.before)
    /\ RoundTrip(NewVersion, OldVersion) /\ AtNew(mig.prev.before)
         => Shape(store) = Shape(mig.prev.before)

\* C30: a migrate whose upgrade or downgrade fails leaves the columns, the
\* indexes and the recorded version as they were before it.
C30_FailedMigrateRestores ==
    [][SchemaStep("migrate")
         /\ mig'.call.kind \in {"OperationalError", "IntegrityError"} =>
         Shape(store') = Shape(store)]_vars

\* C31: migrate to a version other than the current one, with no path from
\* the current one to it, raises the unsupported-path error and leaves the
\* columns, the indexes and the recorded version as they were; migrate to the
\* current version raises nothing and leaves them as they were.
C31_UnsupportedPathRaises ==
    [][SchemaStep("migrate") =>
         LET current == CurrentVersion(store)
             target == mig'.call.arg
         IN /\ current = target =>
                 mig'.call.kind = "already" /\ Shape(store') = Shape(store)
            /\ current # target /\ {current, target} # {OldVersion, NewVersion} =>
                 mig'.call.kind = "ValueError" /\ Shape(store') = Shape(store)]_vars
\* a migrate to the current version returned, and the next one, to a version
\* with no path, has raised
C31_Witness ==
    /\ mig.pc = "done" /\ mig.call.name = "migrate" /\ mig.call.kind = "ValueError"
    /\ mig.call.arg # mig.call.val
    /\ mig.prev.name = "migrate" /\ mig.prev.kind = "already"
    /\ store = mig.prev.before

(* --------------------------------------------------- further claims on add *)

\* C33: an add whose source path does not exist returns no row, and while it
\* runs, having found no row of its name, the table holds no row of that name.
C33_MissingSourceNoRow ==
    \A p \in Procs :
      op[p].name = "add" /\ op[p].src0 = Absent =>
        /\ pc[p] \in AddStages => RowsNamed(rows, op[p].rname) = {}
        /\ pc[p] = "done" => res[p].kind # "row"

\* C34: the row a successful add returns holds, for copy and move, the
\* checksum and the size of the stored file, and for asis neither.
C34_ChecksumAndSize ==
    \A p \in Procs :
      pc[p] = "done" /\ op[p].name = "add" /\ res[p].kind = "row" =>
        LET r == res[p].row[1]
        IN IF op[p].action = "asis"
           THEN r.etag = NoValue /\ "size_bytes" \notin DOMAIN r
           ELSE r.etag = Some(calculate_file_hash(fs[r.rpath]))
                /\ "size_bytes" \in DOMAIN r

\* C35: a get that matches no row returns None and changes no row and no
\* file; a get that returns a row changes no file and, of the rows, only the
\* access_time of that row, which becomes the current time.
C35_GetOnlyTouchesAccessTime ==
    [][\A p \in Procs :
         /\ pc[p] = "idle" /\ op'[p].name = "get" /\ pc'[p] = "done" =>
              res'[p].kind = "None" /\ rows' = rows /\ fs' = fs
         /\ pc[p] = "get_poll" /\ loc[p].ret = "caller" /\ pc'[p] = "done"
              /\ res'[p].kind = "row" =>
              /\ fs' = fs
              /\ \E old \in RowsWithId(rows, loc[p].row.id) :
                   rows' = ReplaceRow(rows, old, [old EXCEPT !.access_time = now])]_vars

\* C39: after an add that failed while storing the file, every file of the
\* cache directory other than the store is the rpath of a row, and for move
\* the source path holds the data it held when add was called.
C39_FailedAddLeavesNoOrphan ==
    \A p \in Procs :
      pc[p] = "done" /\ op[p].name = "add" /\ res[p].kind = "Storage" =>
        /\ \A q \in CachePaths : Exists(fs, q) => \E r \in rows : r.rpath = q
        /\ op[p].action = "move" => fs[op[p].fpath] = op[p].src0

(* ------------------------------------------- the version and the columns *)

\* the recorded version, when there is one, is the version the columns of
\* the resource table indicate
Consistent(st) ==
    VersionRows(st.meta) # {} => VersionOf(st.meta) = DetectVersion(st.columns)

\* C40: get_current_version and migrate, whether they succeed or fail, keep
\* the recorded version equal to the version the columns indicate: from a
\* store where the two agree, each call leads to a store where they agree.
C40_VersionMatchesColumns ==
    [][(SchemaStep("migrate") \/ SchemaStep("get_current_version"))
         /\ Consistent(store) => Consistent(store')]_vars

(* ------------------------------------------------- names, and add_batch *)

\* a name with a space, which config.rname_pattern ^[a-zA-Z0-9_-]+$ does not
\* match; the names of Names match it
BadNames == {"a b"}
\* utils.validate_rname(rname, pattern)
validate_rname(n) == n \notin BadNames

\* the resources of a batch: two of them, each a dict of add's arguments
BatchInfos == [rname : Names, fpath : ExtPaths, action : FileActions]
BatchLists == {<<i, j>> : i \in BatchInfos, j \in BatchInfos}
\* self.add(**resource_info) for the resource at place k of the list
BatchAdd(p, infos, k) ==
    LET o == [NoOp EXCEPT !.name = "add", !.rname = infos[k].rname,
                          !.fpath = infos[k].fpath, !.action = infos[k].action,
                          !.src0 = fs[infos[k].fpath], !.batch = infos, !.at = k]
    IN /\ op' = [op EXCEPT ![p] = o]
       /\ Query(p, o, "add")

\* add_batch(resources) (cache.py 325-342): a session is opened and the first
\* add is called
CallAddBatch(p) ==
    /\ pc[p] = "idle"
    /\ CanCall
    /\ Cardinality(CachePaths \ UsedPaths) >= 2
    /\ \E infos \in BatchLists : BatchAdd(p, infos, 1)
    /\ calls' = calls + 1
    /\ UNCHANGED <<cleanup_interval, rows, fs, now, last, store, mig>>

\* an add of the batch returned its row: the next resource is added. When an
\* add raises, add_batch rolls back its own session, in which nothing was
\* changed (each add commits in a session of its own), and raises: the
\* failed add's result is the batch's
BatchNext(p) ==
    /\ pc[p] = "done"
    /\ op[p].at < Len(op[p].batch)
    /\ res[p].kind = "row"
    /\ BatchAdd(p, op[p].batch, op[p].at + 1)
    /\ UNCHANGED <<cleanup_interval, calls, rows, fs, now, last, store, mig>>

\* add or add_batch returns or raises to its caller
BatchReturn(p) ==
    /\ op[p].at = Len(op[p].batch) \/ res[p].kind # "row"
    /\ Return(p)

\* one caller making adds, of names that match the pattern and of one that
\* does not, and batches of adds
NextBatch ==
    \/ CallAddOf(Caller, Names \cup BadNames)
    \/ CallAddBatch(Caller)
    \/ BatchNext(Caller)
    \/ GetPoll(Caller)
    \/ AddInsert(Caller)
    \/ AddCopy(Caller)
    \/ AddWrite(Caller)
    \/ AddUnlink(Caller)
    \/ AddHash(Caller)
    \/ BatchReturn(Caller)

SpecBatch == Init /\ [][NextBatch]_vars

\* C32: an add whose rname does not match the naming pattern raises at once:
\* it is never past its first step, it returns no row, and the table holds no
\* row of that name.
C32_InvalidNameRejected ==
    \A p \in Procs :
      op[p].name = "add" /\ ~validate_rname(op[p].rname) =>
        /\ pc[p] = "done" /\ res[p].kind # "row"
        /\ RowsNamed(rows, op[p].rname) = {}

\* C36: when add_batch has raised, the table holds no row for a resource
\* listed before the one whose add failed, and the cache directory holds no
\* file but the store's and those of rows of other names.
C36_BatchAllOrNothing ==
    \A p \in Procs :
      pc[p] = "done" /\ op[p].batch # <<>> /\ res[p].kind # "row" =>
        \A k \in 1..(op[p].at - 1) :
          /\ RowsNamed(rows, op[p].batch[k].rname) = {}
          /\ \A q \in CachePaths : Exists(fs, q) =>
               \E r \in rows : r.rpath = q /\ r.rname # op[p].batch[k].rname

(* ---------------------------------------------------- automatic cleanup *)

\* _should_cleanup(): an interval is configured and more than it has passed
\* since the last cleanup
should_cleanup(interval, last_cleanup, t) ==
    interval # NoValue /\ t - last_cleanup > interval[1]
\* _last_cleanup of a cache object made at time 0 that has run no cleanup
\* and no purge
LastCleanup == 0
\* the rows of the stocked cache, the first of them expiring at time 1
ExpiringRows == {[StockedRow(1, "A", "a") EXCEPT !.expires = Some(1)], StockedRow(2, "B", "b")}

InitExpiring ==
    /\ cleanup_interval = Some(1)
    /\ rows = ExpiringRows
    /\ fs = StockedFs
    /\ now = 1
    /\ calls = 0
    /\ pc = [p \in Procs |-> "idle"]
    /\ op = [p \in Procs |-> NoOp]
    /\ loc = [p \in Procs |-> NoLoc]
    /\ res = [p \in Procs |-> NoResult]
    /\ last = [p \in Procs |-> NoOp]
    /\ store = LibraryStore
    /\ mig = OpenedMig

\* a caller that reads the cache and never calls cleanup
NextAuto ==
    \/ Tick
    \/ CallGet(Caller)
    \/ GetPoll(Caller)
    \/ Return(Caller)

\* the caller's calls run to their end and time passes
SpecAuto == InitExpiring /\ [][NextAuto]_vars /\ WF_vars(NextAuto)

\* C37: once an operation has completed with an interval configured and more
\* than the interval passed since the last cleanup, the expired rows are
\* eventually removed, with no call of cleanup.
C37_AutoCleanupRuns ==
    (pc[Caller] = "done" /\ should_cleanup(cleanup_interval, LastCleanup, now))
        ~> (Expired(rows, now) = {})

(* ----------------------------------- two processes open a fresh directory *)

\* BiocFileCache(cache_dir) begins: the directory is made when it is missing
\* (cache.py 54-58, 68-70)
OpenCall(p) ==
    /\ pc[p] = "idle"
    /\ CanCall
    /\ op' = [op EXCEPT ![p] = [NoOp EXCEPT !.name = "open"]]
    /\ pc' = [pc EXCEPT ![p] = "open_check"]
    /\ calls' = calls + 1
    /\ UNCHANGED <<cleanup_interval, rows, fs, now, loc, res, last, store, mig>>

\* create_all looks for the tables (cache.py 83): those it finds it leaves
OpenCheck(p) ==
    /\ pc[p] = "open_check"
    /\ pc' = [pc EXCEPT ![p] = IF store.made THEN "open_select" ELSE "open_create"]
    /\ UNCHANGED <<cleanup_interval, calls, rows, fs, now, op, loc, res, last, store, mig>>

\* create_all issues CREATE TABLE for the tables it did not find; the store
\* refuses a table that exists by now, and the construction raises
OpenCreate(p) ==
    /\ pc[p] = "open_create"
    /\ IF store.made
       THEN /\ pc' = [pc EXCEPT ![p] = "done"]
            /\ res' = [res EXCEPT ![p] = Raised("OperationalError")]
            /\ UNCHANGED <<store, fs>>
       ELSE /\ store' = AfterCreateAll(store)
            /\ fs' = [fs EXCEPT ![StorePath] = StoreData]
            /\ pc' = [pc EXCEPT ![p] = "open_select"]
            /\ res' = res
    /\ UNCHANGED <<cleanup_interval, calls, rows, now, op, loc, last, mig>>

\* SELECT value FROM metadata WHERE key = 'schema_version' (cache.py 85-96):
\* a version found is returned, and __init__ compares it (61-64)
OpenSelect(p) ==
    /\ pc[p] = "open_select"
    /\ IF VersionRows(store.meta) # {}
       THEN /\ pc' = [pc EXCEPT ![p] = "done"]
            /\ res' = [res EXCEPT ![p] = Raised(IF VersionOf(store.meta) = SCHEMA_VERSION
                                                THEN "opened" ELSE "RuntimeError")]
       ELSE /\ pc' = [pc EXCEPT ![p] = "open_insert"]
            /\ res' = res
    /\ UNCHANGED <<cleanup_interval, calls, rows, fs, now, op, loc, last, store, mig>>

\* INSERT INTO metadata ... ; conn.commit() (cache.py 98-107): the primary key
\* refuses a second schema_version row, and the construction raises
OpenInsert(p) ==
    /\ pc[p] = "open_insert"
    /\ pc' = [pc EXCEPT ![p] = "done"]
    /\ IF HasKey(store.meta, VersionKey)
       THEN /\ res' = [res EXCEPT ![p] = Raised("IntegrityError")]
            /\ store' = store
       ELSE /\ res' = [res EXCEPT ![p] = Raised("opened")]
            /\ store' = [store EXCEPT !.meta = @ \cup {MetaRow(VersionKey, SCHEMA_VERSION)}]
    /\ UNCHANGED <<cleanup_interval, calls, rows, fs, now, op, loc, last, mig>>

\* a fresh directory: no store file, no resource file
InitOpen ==
    /\ cleanup_interval = Some(1)
    /\ rows = {}
    /\ fs = [InitFs EXCEPT ![StorePath] = Absent]
    /\ now = 1
    /\ calls = 0
    /\ pc = [p \in Procs |-> "idle"]
    /\ op = [p \in Procs |-> NoOp]
    /\ loc = [p \in Procs |-> NoLoc]
    /\ res = [p \in Procs |-> NoResult]
    /\ last = [p \in Procs |-> NoOp]
    /\ store = FreshStore
    /\ mig = NoMig

\* the processes open the directory, each any number of times
NextOpen ==
    \/ \E p \in Procs : OpenCall(p)
    \/ \E p \in Procs : OpenCheck(p)
    \/ \E p \in Procs : OpenCreate(p)
    \/ \E p \in Procs : OpenSelect(p)
    \/ \E p \in Procs : OpenInsert(p)
    \/ \E p \in Procs : Return(p)

SpecOpen == InitOpen /\ [][NextOpen]_vars

\* C38: every construction on a directory that was fresh succeeds, whatever
\* the other process does meanwhile, and once one has returned the store
\* holds exactly one schema_version row, with the latest version.
C38_ConcurrentOpenSucceeds ==
    \A p \in Procs :
      pc[p] = "done" /\ op[p].name = "open" =>
        res[p].kind = "opened" /\ Records(store, SCHEMA_VERSION)
====
